---- MODULE Spec2Model ----
(***************************************************************************)
(* The builders of src/dfcx_scrapi/builders/routes.py: FulfillmentBuilder, *)
(* TransitionRouteBuilder and EventHandlerBuilder.  Each builder instance  *)
(* has one attribute, proto_obj, that is None or a reference to a proto    *)
(* message; messages live in a heap so that identity and aliasing show.    *)
(***************************************************************************)
EXTENDS Integers, Sequences, FiniteSets, TLC

\* ------------------------------------------------------------------ bounds

\* Longest set_parameter_actions list an add_parameter_presets call may build.
MaxPresets == 2

\* ----------------------------------------------------------- Python values

\* Python's None as the value of proto_obj and of a message-typed argument.
None == 0
\* A message-typed argument that is no proto message at all (e.g. the int 5).
NonMessage == -1

PyNone == [k |-> "NoneType", val |-> "None"]
PyTrue == [k |-> "bool", val |-> "True"]
PyFalse == [k |-> "bool", val |-> "False"]
PyInt5 == [k |-> "int", val |-> "5"]
Str(s) == [k |-> "str", val |-> s]
List(items) == [k |-> "list", val |-> items]
Dict(items) == [k |-> "dict", val |-> items]

\* Python truth value of a plain value: `if x`, `x and ...`.
PyBool(v) ==
    CASE v.k = "NoneType" -> FALSE
      [] v.k = "bool" -> v.val = "True"
      [] v.k = "int" -> v.val # "0"
      [] v.k = "str" -> v.val # ""
      [] OTHER -> v.val # <<>>

isinstance(v, t) == v.k = t

\* ---------------------------------------------------------- proto messages

Free == [type |-> "free"]

\* The value a string field takes from a constructor keyword: None is dropped
\* and the field keeps its default, the empty string.
FieldStr(v) == IF v.k = "str" THEN v.val ELSE ""
FieldBool(v) == v = PyTrue

NoTarget == [case |-> "none", val |-> ""]
\* target_page and target_flow are the members of the oneof `target`; the
\* keywords are applied in order and a later member replaces an earlier one.
Target(target_page, target_flow) ==
    IF target_flow.k = "str" THEN [case |-> "target_flow", val |-> target_flow.val]
    ELSE IF target_page.k = "str" THEN [case |-> "target_page", val |-> target_page.val]
    ELSE NoTarget

\* types.Fulfillment(webhook=..., return_partial_responses=..., tag=...)
Fulfillment(webhook, return_partial_responses, tag) ==
    [type |-> "Fulfillment",
     webhook |-> FieldStr(webhook),
     return_partial_responses |-> FieldBool(return_partial_responses),
     tag |-> FieldStr(tag),
     messages |-> <<>>,
     set_parameter_actions |-> <<>>]

\* types.TransitionRoute(intent=..., condition=..., trigger_fulfillment=...,
\* target_page=..., target_flow=...); trigger_fulfillment is <<>> when unset
\* and <<f>> when present: a message field holds a copy of the value given.
TransitionRoute(intent, condition, trigger_fulfillment, target_page, target_flow) ==
    [type |-> "TransitionRoute",
     intent |-> FieldStr(intent),
     condition |-> FieldStr(condition),
     trigger_fulfillment |-> trigger_fulfillment,
     target |-> Target(target_page, target_flow)]

\* types.EventHandler(event=..., trigger_fulfillment=..., target_page=...,
\* target_flow=...)
EventHandler(event, trigger_fulfillment, target_page, target_flow) ==
    [type |-> "EventHandler",
     event |-> FieldStr(event),
     trigger_fulfillment |-> trigger_fulfillment,
     target |-> Target(target_page, target_flow)]

\* Truth value of a proto message (`if self.proto_obj`): a message is true
\* iff one of its fields is set, so a message with every field at its default
\* is false.
MessageBool(m) ==
    CASE m.type = "Fulfillment" ->
            \/ m.webhook # ""
            \/ m.tag # ""
            \/ m.return_partial_responses
            \/ m.messages # <<>>
            \/ m.set_parameter_actions # <<>>
      [] m.type = "TransitionRoute" ->
            \/ m.intent # ""
            \/ m.condition # ""
            \/ m.trigger_fulfillment # <<>>
            \/ m.target.case # "none"
      [] m.type = "EventHandler" ->
            \/ m.event # ""
            \/ m.trigger_fulfillment # <<>>
            \/ m.target.case # "none"
      [] OTHER -> FALSE

\* ------------------------------------------------------------------- state

\* Messages the caller built itself and may pass to load_* or as a
\* trigger_fulfillment: an empty Fulfillment, a Fulfillment with a tag and one
\* text message, a TransitionRoute with an intent, an EventHandler with an
\* event, an empty TransitionRoute and an empty EventHandler.
CallerObjects ==
    << Fulfillment(PyNone, PyFalse, PyNone),
       [Fulfillment(PyNone, PyFalse, Str("t")) EXCEPT
           !.messages = << [kind |-> "text", text |-> <<"hi">>] >>],
       TransitionRoute(Str("i1"), PyNone, <<>>, PyNone, PyNone),
       EventHandler(Str("e1"), <<>>, PyNone, PyNone),
       TransitionRoute(PyNone, PyNone, <<>>, PyNone, PyNone),
       EventHandler(PyNone, <<>>, PyNone, PyNone) >>

CallerIds == DOMAIN CallerObjects

FBuilders == {"fb1", "fb2"}
TBuilders == {"trb1"}
EBuilders == {"ehb1"}

\* Heap addresses: the caller's objects, then room for one message per builder
\* and the one under construction.
Ids == 1 .. (Len(CallerObjects) + Cardinality(FBuilders) + 1)

VARIABLES
    heap,       \* Ids -> message or Free
    proto_obj,  \* builder -> None or the address of its held message
    last,       \* the last call: operation, builder, error raised, value returned
    succeeded,  \* history: builder -> a create or load has succeeded on it
    loaded      \* history: builder -> the address its last successful load was given
                \*          (None once a create replaced it)

vars == <<heap, proto_obj, last, succeeded, loaded>>

\* `if self.proto_obj` for a builder attribute holding reference r.
ObjBool(r) == r # None /\ MessageBool(heap[r])

LiveIds == {i \in Ids : heap[i] # Free}

\* An unreferenced message is reclaimed; the caller keeps its own objects.
Collect(h, po) ==
    [i \in Ids |->
        IF i \in CallerIds \/ (\E b \in DOMAIN po : po[b] = i) THEN h[i] ELSE Free]

NewId == CHOOSE i \in Ids : heap[i] = Free /\ \A j \in Ids : heap[j] = Free => i <= j

\* raise: the call ends with error e and assigns nothing.
Raise(op, b, e) ==
    /\ last' = [op |-> op, b |-> b, err |-> e, ret |-> None]
    /\ UNCHANGED <<heap, proto_obj, succeeded, loaded>>

\* self.proto_obj = <the message at address r>; return self.proto_obj
SetProtoObj(op, b, r, h, ld) ==
    /\ proto_obj' = [proto_obj EXCEPT ![b] = r]
    /\ heap' = Collect(h, proto_obj')
    /\ last' = [op |-> op, b |-> b, err |-> "OK", ret |-> r]
    /\ succeeded' = [succeeded EXCEPT ![b] = TRUE]
    /\ loaded' = [loaded EXCEPT ![b] = ld]

\* The state after the builders bs were constructed with no argument.
Constructed(bs) ==
    /\ heap = [i \in Ids |-> IF i \in CallerIds THEN CallerObjects[i] ELSE Free]
    /\ proto_obj = [b \in bs |-> None]
    /\ succeeded = [b \in bs |-> FALSE]
    /\ loaded = [b \in bs |-> None]
    /\ last = [op |-> "__init__", b |-> "", err |-> "OK", ret |-> None]

\* A program that uses one builder, of any of the three classes.
Init == \E b \in {"fb1", "trb1", "ehb1"} : Constructed({b})

\* A program that uses two FulfillmentBuilders, which may wrap the same message.
InitShared == Constructed(FBuilders)

\* ------------------------------------------------------ FulfillmentBuilder

\* _check_fulfillment_exist: the error it raises, "OK" when it returns.
check_fulfillment_exist(b) ==
    IF ~ObjBool(proto_obj[b]) THEN "NotLoaded"
    ELSE IF heap[proto_obj[b]].type # "Fulfillment" THEN "TypeMismatch"
    ELSE "OK"

\* isinstance(obj, types.<cls>) for a message-typed argument.
IsMessage(obj, cls) == obj \in Ids /\ heap[obj].type = cls

\* What a message-typed argument may be: None, a non-message, a live message.
ObjArgs == {None, NonMessage} \cup LiveIds

\* load_fulfillment holding a copy of the argument instead of the argument.
load_fulfillment_copy(b, obj, overwrite) ==
    /\ b \in FBuilders
    /\ IF ~IsMessage(obj, "Fulfillment")
       THEN Raise("load", b, "TypeMismatch")
       ELSE IF ObjBool(proto_obj[b]) /\ ~overwrite
       THEN Raise("load", b, "AlreadyLoaded")
       ELSE SetProtoObj("load", b, NewId, [heap EXCEPT ![NewId] = heap[obj]], obj)

load_fulfillment(b, obj, overwrite) ==
    /\ b \in FBuilders
    /\ IF ~IsMessage(obj, "Fulfillment")
       THEN Raise("load", b, "TypeMismatch")
       ELSE IF ObjBool(proto_obj[b]) /\ ~overwrite
       THEN Raise("load", b, "AlreadyLoaded")
       ELSE IF overwrite \/ ~ObjBool(proto_obj[b])
       THEN SetProtoObj("load", b, obj, heap, obj)
       ELSE /\ last' = [op |-> "load", b |-> b, err |-> "OK", ret |-> proto_obj[b]]
            /\ UNCHANGED <<heap, proto_obj, succeeded, loaded>>

\* Argument values tried for a string parameter whose usual value is s.
StrArgs(s) == {PyNone, Str(s), PyInt5}
BoolArgs == {PyFalse, PyTrue, Str("yes")}

\* create_empty_fulfillment without the check that a webhook comes with a tag.
create_empty_fulfillment_any_tag(b, webhook, tag, return_partial_responses, overwrite) ==
    /\ b \in FBuilders
    /\ IF PyBool(return_partial_responses) /\ ~isinstance(return_partial_responses, "bool")
       THEN Raise("create_empty", b, "TypeMismatch")
       ELSE IF \/ PyBool(webhook) /\ ~isinstance(webhook, "str")
               \/ PyBool(tag) /\ ~isinstance(tag, "str")
       THEN Raise("create_empty", b, "TypeMismatch")
       ELSE IF ObjBool(proto_obj[b]) /\ ~overwrite
       THEN Raise("create_empty", b, "AlreadyLoaded")
       ELSE SetProtoObj("create_empty", b, NewId,
               [heap EXCEPT ![NewId] = Fulfillment(webhook, return_partial_responses, tag)],
               None)

create_empty_fulfillment(b, webhook, tag, return_partial_responses, overwrite) ==
    /\ b \in FBuilders
    /\ IF PyBool(return_partial_responses) /\ ~isinstance(return_partial_responses, "bool")
       THEN Raise("create_empty", b, "TypeMismatch")
       ELSE IF \/ PyBool(webhook) /\ ~isinstance(webhook, "str")
               \/ PyBool(tag) /\ ~isinstance(tag, "str")
       THEN Raise("create_empty", b, "TypeMismatch")
       ELSE IF PyBool(webhook) /\ ~PyBool(tag)
       THEN Raise("create_empty", b, "MissingField")
       ELSE IF ObjBool(proto_obj[b]) /\ ~overwrite
       THEN Raise("create_empty", b, "AlreadyLoaded")
       ELSE IF overwrite \/ ~ObjBool(proto_obj[b])
       THEN SetProtoObj("create_empty", b, NewId,
               [heap EXCEPT ![NewId] = Fulfillment(webhook, return_partial_responses, tag)],
               None)
       ELSE /\ last' = [op |-> "create_empty", b |-> b, err |-> "OK", ret |-> proto_obj[b]]
            /\ UNCHANGED <<heap, proto_obj, succeeded, loaded>>

\* The parameters of _response_message_creator: it is declared inside the class
\* without a `self` parameter.
CreatorParams == <<"response_type", "message", "mode">>

\* Binding the arguments of a call: a parameter filled by position and named
\* again by keyword is a TypeError.
BindArguments(params, npositional, keywords) ==
    IF \E i \in 1 .. npositional : i <= Len(params) /\ params[i] \in keywords
    THEN "TypeError"
    ELSE "OK"

\* _response_message_creator's body: err is the error it raises ("OK" when it
\* ends normally), response_message the message it builds and ret the value it
\* returns.  It has no return statement, so it returns None.
response_message_creator(response_type, message, mode) ==
    LET Built(m) == [err |-> "OK", response_message |-> m, ret |-> PyNone]
        Invalid == [err |-> "InvalidArgument", response_message |-> PyNone, ret |-> PyNone]
        StrKeys == \A i \in DOMAIN message.val : isinstance(message.val[i][1], "str")
    IN
    CASE response_type = "text" ->
            IF isinstance(message, "str")
            THEN Built([kind |-> "text", text |-> <<message.val>>])
            ELSE IF isinstance(message, "list")
            THEN IF ~(\A i \in DOMAIN message.val : isinstance(message.val[i], "str"))
                 THEN Invalid
                 ELSE Built([kind |-> "text",
                             text |-> [i \in DOMAIN message.val |-> message.val[i].val]])
            ELSE Invalid
      [] response_type = "live_agent_handoff" ->
            IF isinstance(message, "dict")
            THEN IF ~StrKeys THEN Invalid
                 ELSE Built([kind |-> "live_agent_handoff", metadata |-> message.val])
            ELSE Invalid
      [] response_type = "conversation_success" ->
            IF isinstance(message, "dict")
            THEN IF ~StrKeys THEN Invalid
                 ELSE Built([kind |-> "conversation_success", metadata |-> message.val])
            ELSE Invalid
      [] response_type = "output_audio_text" ->
            IF isinstance(message, "str")
            THEN IF mode = Str("text")
                 THEN Built([kind |-> "output_audio_text", text |-> message.val])
                 ELSE IF mode = Str("ssml")
                 THEN Built([kind |-> "output_audio_text", ssml |-> message.val])
                 ELSE Invalid
            ELSE Invalid
      [] response_type = "play_audio" ->
            IF isinstance(message, "str")
            THEN Built([kind |-> "play_audio", audio_uri |-> message.val])
            ELSE Invalid
      [] response_type = "telephony_transfer_call" ->
            IF isinstance(message, "str")
            THEN Built([kind |-> "telephony_transfer_call", phone_number |-> message.val])
            ELSE Invalid
      [] OTHER -> Invalid

ResponseTypes ==
    {"text", "live_agent_handoff", "conversation_success", "output_audio_text",
     "play_audio", "telephony_transfer_call", "image"}
Messages ==
    {Str("hi"), List(<<Str("a"), Str("b")>>), List(<<Str("a"), PyInt5>>),
     Dict(<< <<Str("k"), Str("v")>> >>), Dict(<< <<PyInt5, Str("v")>> >>), PyInt5}
Modes == {PyNone, Str("text"), Str("ssml"), Str("markup")}

\* self._response_message_creator(response_type=..., message=..., mode=...):
\* the call through the instance passes self by position and the three
\* arguments by keyword.
add_response_message(b, response_type, message, mode) ==
    /\ b \in FBuilders
    /\ LET exist == check_fulfillment_exist(b)
           bind == BindArguments(CreatorParams, 1, {"response_type", "message", "mode"})
           made == response_message_creator(response_type, message, mode)
       IN
       IF exist # "OK" THEN Raise("add_response_message", b, exist)
       ELSE IF bind # "OK" THEN Raise("add_response_message", b, bind)
       ELSE IF made.err # "OK" THEN Raise("add_response_message", b, made.err)
       ELSE IF made.ret = PyNone
       THEN \* messages.append(None): None is no ResponseMessage
            Raise("add_response_message", b, "TypeError")
       ELSE /\ heap' = [heap EXCEPT ![proto_obj[b]].messages = Append(@, made.ret)]
            /\ last' = [op |-> "add_response_message", b |-> b, err |-> "OK",
                        ret |-> proto_obj[b]]
            /\ UNCHANGED <<proto_obj, succeeded, loaded>>

Pair(key, value) == <<key, value>>
ParameterMaps ==
    {Dict(<<>>),
     Dict(<<Pair(Str("a"), Str("1"))>>),
     Dict(<<Pair(Str("a"), Str("1")), Pair(Str("b"), Str("2"))>>),
     Dict(<<Pair(Str("b"), Str("2")), Pair(Str("a"), Str("1"))>>),
     Dict(<<Pair(Str("a"), PyInt5)>>),
     Dict(<<Pair(Str("a"), Str("1")), Pair(Str("b"), PyInt5)>>),
     Dict(<<Pair(PyInt5, Str("1"))>>),
     Str("a=1")}

\* types.Fulfillment.SetParameterAction(parameter=..., value=...)
SetParameterAction(parameter, value) == [parameter |-> parameter.val, value |-> value.val]

\* The actions the loop of add_parameter_presets appends, in the dict's order.
PresetActions(items) ==
    [i \in DOMAIN items |-> SetParameterAction(items[i][1], items[i][2])]

\* add_parameter_presets with the argument validated before the held-record check.
add_parameter_presets_validate_first(b, parameter_map) ==
    /\ b \in FBuilders
    /\ LET exist == check_fulfillment_exist(b) IN
       IF ~isinstance(parameter_map, "dict")
       THEN Raise("add_parameter_presets", b, "InvalidArgument")
       ELSE IF ~(\A i \in DOMAIN parameter_map.val :
                    /\ isinstance(parameter_map.val[i][1], "str")
                    /\ isinstance(parameter_map.val[i][2], "str"))
       THEN Raise("add_parameter_presets", b, "InvalidArgument")
       ELSE IF exist # "OK" THEN Raise("add_parameter_presets", b, exist)
       ELSE /\ Len(heap[proto_obj[b]].set_parameter_actions) + Len(parameter_map.val)
                   <= MaxPresets
            /\ heap' = [heap EXCEPT ![proto_obj[b]].set_parameter_actions =
                           @ \o PresetActions(parameter_map.val)]
            /\ last' = [op |-> "add_parameter_presets", b |-> b, err |-> "OK",
                        ret |-> proto_obj[b]]
            /\ UNCHANGED <<proto_obj, succeeded, loaded>>

\* add_parameter_presets checking each entry as it appends it: the entries
\* before the first invalid one are appended before the error is raised.
add_parameter_presets_entry_by_entry(b, parameter_map) ==
    /\ b \in FBuilders
    /\ LET exist == check_fulfillment_exist(b)
           items == parameter_map.val
           invalid == {i \in DOMAIN items :
                          ~(isinstance(items[i][1], "str") /\ isinstance(items[i][2], "str"))}
           upto == IF invalid = {} THEN Len(items)
                   ELSE (CHOOSE i \in invalid : \A j \in invalid : i <= j) - 1
       IN
       IF exist # "OK" THEN Raise("add_parameter_presets", b, exist)
       ELSE IF ~isinstance(parameter_map, "dict")
       THEN Raise("add_parameter_presets", b, "InvalidArgument")
       ELSE /\ Len(heap[proto_obj[b]].set_parameter_actions) + upto <= MaxPresets
            /\ heap' = [heap EXCEPT ![proto_obj[b]].set_parameter_actions =
                           @ \o PresetActions(SubSeq(items, 1, upto))]
            /\ last' = [op |-> "add_parameter_presets", b |-> b,
                        err |-> IF invalid = {} THEN "OK" ELSE "InvalidArgument",
                        ret |-> IF invalid = {} THEN proto_obj[b] ELSE None]
            /\ UNCHANGED <<proto_obj, succeeded, loaded>>

add_parameter_presets(b, parameter_map) ==
    /\ b \in FBuilders
    /\ LET exist == check_fulfillment_exist(b) IN
       IF exist # "OK" THEN Raise("add_parameter_presets", b, exist)
       ELSE IF isinstance(parameter_map, "dict")
       THEN IF ~(\A i \in DOMAIN parameter_map.val :
                    /\ isinstance(parameter_map.val[i][1], "str")
                    /\ isinstance(parameter_map.val[i][2], "str"))
            THEN Raise("add_parameter_presets", b, "InvalidArgument")
            ELSE /\ Len(heap[proto_obj[b]].set_parameter_actions) + Len(parameter_map.val)
                        <= MaxPresets
                 /\ heap' = [heap EXCEPT ![proto_obj[b]].set_parameter_actions =
                                @ \o PresetActions(parameter_map.val)]
                 /\ last' = [op |-> "add_parameter_presets", b |-> b, err |-> "OK",
                             ret |-> proto_obj[b]]
                 /\ UNCHANGED <<proto_obj, succeeded, loaded>>
       ELSE Raise("add_parameter_presets", b, "InvalidArgument")

\* add_conditional_case: the check, then the end of the body (returns None).
add_conditional_case(b) ==
    /\ b \in FBuilders
    /\ LET exist == check_fulfillment_exist(b) IN
       IF exist # "OK" THEN Raise("add_conditional_case", b, exist)
       ELSE /\ last' = [op |-> "add_conditional_case", b |-> b, err |-> "OK", ret |-> None]
            /\ UNCHANGED <<heap, proto_obj, succeeded, loaded>>

\* -------------------------------------------------- TransitionRouteBuilder

\* Values tried for trigger_fulfillment: None, a non-message, the caller's
\* Fulfillments and the caller's empty TransitionRoute.
TriggerArgs ==
    {None, NonMessage}
    \cup {i \in CallerIds : CallerObjects[i].type = "Fulfillment"}
    \cup {i \in CallerIds : CallerObjects[i].type = "TransitionRoute"
                              /\ ~MessageBool(CallerObjects[i])}

\* `if trigger_fulfillment` for a message-typed argument.
ArgBool(obj) == obj = NonMessage \/ (obj \in Ids /\ MessageBool(heap[obj]))

load_transition_route(b, obj, overwrite) ==
    /\ b \in TBuilders
    /\ IF ~IsMessage(obj, "TransitionRoute")
       THEN Raise("load", b, "TypeMismatch")
       ELSE IF ObjBool(proto_obj[b]) /\ ~overwrite
       THEN Raise("load", b, "AlreadyLoaded")
       ELSE IF overwrite \/ ~ObjBool(proto_obj[b])
       THEN SetProtoObj("load", b, obj, heap, obj)
       ELSE /\ last' = [op |-> "load", b |-> b, err |-> "OK", ret |-> proto_obj[b]]
            /\ UNCHANGED <<heap, proto_obj, succeeded, loaded>>

\* create_empty_transition_route without the check of the two targets.
create_empty_transition_route_any_target(b, intent, condition, trigger_fulfillment, target_page, target_flow, overwrite) ==
    /\ b \in TBuilders
    /\ IF \/ PyBool(intent) /\ ~isinstance(intent, "str")
          \/ PyBool(condition) /\ ~isinstance(condition, "str")
          \/ PyBool(target_page) /\ ~isinstance(target_page, "str")
          \/ PyBool(target_flow) /\ ~isinstance(target_flow, "str")
       THEN Raise("create_empty", b, "TypeMismatch")
       ELSE IF ArgBool(trigger_fulfillment) /\ ~IsMessage(trigger_fulfillment, "Fulfillment")
       THEN Raise("create_empty", b, "TypeMismatch")
       ELSE IF ObjBool(proto_obj[b]) /\ ~overwrite
       THEN Raise("create_empty", b, "AlreadyLoaded")
       ELSE SetProtoObj("create_empty", b, NewId,
               [heap EXCEPT ![NewId] =
                   TransitionRoute(intent, condition,
                       IF ArgBool(trigger_fulfillment) THEN <<heap[trigger_fulfillment]>>
                       ELSE <<Fulfillment(PyNone, PyNone, PyNone)>>,
                       target_page, target_flow)],
               None)

create_empty_transition_route(b, intent, condition, trigger_fulfillment, target_page, target_flow, overwrite) ==
    /\ b \in TBuilders
    /\ IF \/ PyBool(intent) /\ ~isinstance(intent, "str")
          \/ PyBool(condition) /\ ~isinstance(condition, "str")
          \/ PyBool(target_page) /\ ~isinstance(target_page, "str")
          \/ PyBool(target_flow) /\ ~isinstance(target_flow, "str")
       THEN Raise("create_empty", b, "TypeMismatch")
       ELSE IF ArgBool(trigger_fulfillment) /\ ~IsMessage(trigger_fulfillment, "Fulfillment")
       THEN Raise("create_empty", b, "TypeMismatch")
       ELSE IF PyBool(target_page) /\ PyBool(target_flow)
       THEN Raise("create_empty", b, "ConflictingFields")
       ELSE IF ObjBool(proto_obj[b]) /\ ~overwrite
       THEN Raise("create_empty", b, "AlreadyLoaded")
       ELSE IF overwrite \/ ~ObjBool(proto_obj[b])
       THEN IF ~ArgBool(trigger_fulfillment)
            THEN SetProtoObj("create_empty", b, NewId,
                    [heap EXCEPT ![NewId] =
                        TransitionRoute(intent, condition,
                            <<Fulfillment(PyNone, PyNone, PyNone)>>,
                            target_page, target_flow)],
                    None)
            ELSE SetProtoObj("create_empty", b, NewId,
                    [heap EXCEPT ![NewId] =
                        TransitionRoute(intent, condition, <<heap[trigger_fulfillment]>>,
                            target_page, target_flow)],
                    None)
       ELSE /\ last' = [op |-> "create_empty", b |-> b, err |-> "OK", ret |-> proto_obj[b]]
            /\ UNCHANGED <<heap, proto_obj, succeeded, loaded>>

\* ----------------------------------------------------- EventHandlerBuilder

load_event_handler(b, obj, overwrite) ==
    /\ b \in EBuilders
    /\ IF ~IsMessage(obj, "EventHandler")
       THEN Raise("load", b, "TypeMismatch")
       ELSE IF ObjBool(proto_obj[b]) /\ ~overwrite
       THEN Raise("load", b, "AlreadyLoaded")
       ELSE IF overwrite \/ ~ObjBool(proto_obj[b])
       THEN SetProtoObj("load", b, obj, heap, obj)
       ELSE /\ last' = [op |-> "load", b |-> b, err |-> "OK", ret |-> proto_obj[b]]
            /\ UNCHANGED <<heap, proto_obj, succeeded, loaded>>

\* The trigger_fulfillment keyword of types.EventHandler(...): None leaves the
\* field unset, a Fulfillment is copied in, any other message is a TypeError.
TriggerField(obj) == IF obj \in Ids THEN <<heap[obj]>> ELSE <<>>

\* create_empty_event_handler putting an empty Fulfillment in place of an absent
\* trigger_fulfillment, as create_empty_transition_route does.
create_empty_event_handler_substitute(b, event, trigger_fulfillment, target_page, target_flow, overwrite) ==
    /\ b \in EBuilders
    /\ IF PyBool(event) /\ ~isinstance(event, "str")
       THEN Raise("create_empty", b, "TypeMismatch")
       ELSE IF ArgBool(trigger_fulfillment) /\ ~IsMessage(trigger_fulfillment, "Fulfillment")
       THEN Raise("create_empty", b, "TypeMismatch")
       ELSE IF PyBool(target_page) /\ PyBool(target_flow)
       THEN Raise("create_empty", b, "ConflictingFields")
       ELSE IF ObjBool(proto_obj[b]) /\ ~overwrite
       THEN Raise("create_empty", b, "AlreadyLoaded")
       ELSE SetProtoObj("create_empty", b, NewId,
               [heap EXCEPT ![NewId] =
                   EventHandler(event,
                       IF ArgBool(trigger_fulfillment) THEN <<heap[trigger_fulfillment]>>
                       ELSE <<Fulfillment(PyNone, PyNone, PyNone)>>,
                       target_page, target_flow)],
               None)

create_empty_event_handler(b, event, trigger_fulfillment, target_page, target_flow, overwrite) ==
    /\ b \in EBuilders
    /\ IF PyBool(event) /\ ~isinstance(event, "str")
       THEN Raise("create_empty", b, "TypeMismatch")
       ELSE IF ArgBool(trigger_fulfillment) /\ ~IsMessage(trigger_fulfillment, "Fulfillment")
       THEN Raise("create_empty", b, "TypeMismatch")
       ELSE IF PyBool(target_page) /\ PyBool(target_flow)
       THEN Raise("create_empty", b, "ConflictingFields")
       ELSE IF ObjBool(proto_obj[b]) /\ ~overwrite
       THEN Raise("create_empty", b, "AlreadyLoaded")
       ELSE IF overwrite \/ ~ObjBool(proto_obj[b])
       THEN IF trigger_fulfillment \in Ids /\ ~IsMessage(trigger_fulfillment, "Fulfillment")
            THEN Raise("create_empty", b, "TypeError")
            ELSE SetProtoObj("create_empty", b, NewId,
                    [heap EXCEPT ![NewId] =
                        EventHandler(event, TriggerField(trigger_fulfillment),
                            target_page, target_flow)],
                    None)
       ELSE /\ last' = [op |-> "create_empty", b |-> b, err |-> "OK", ret |-> proto_obj[b]]
            /\ UNCHANGED <<heap, proto_obj, succeeded, loaded>>

\* ------------------------------------------------------------ specification

Next ==
    \/ \E b \in DOMAIN proto_obj, obj \in ObjArgs, overwrite \in BOOLEAN :
          load_fulfillment(b, obj, overwrite)
    \/ \E b \in DOMAIN proto_obj, webhook \in StrArgs("w"), tag \in StrArgs("t"),
          return_partial_responses \in BoolArgs, overwrite \in BOOLEAN :
          create_empty_fulfillment(b, webhook, tag, return_partial_responses, overwrite)
    \/ \E b \in DOMAIN proto_obj, response_type \in ResponseTypes,
          message \in Messages, mode \in Modes :
          add_response_message(b, response_type, message, mode)
    \/ \E b \in DOMAIN proto_obj, parameter_map \in ParameterMaps :
          add_parameter_presets(b, parameter_map)
    \/ \E b \in DOMAIN proto_obj : add_conditional_case(b)
    \/ \E b \in DOMAIN proto_obj, obj \in ObjArgs, overwrite \in BOOLEAN :
          load_transition_route(b, obj, overwrite)
    \/ \E b \in DOMAIN proto_obj, intent \in StrArgs("i1"), condition \in {PyNone, Str("c1")},
          trigger_fulfillment \in TriggerArgs, target_page \in {PyNone, Str("p1")},
          target_flow \in {PyNone, Str("f1")}, overwrite \in BOOLEAN :
          create_empty_transition_route(b, intent, condition, trigger_fulfillment,
                                        target_page, target_flow, overwrite)
    \/ \E b \in DOMAIN proto_obj, obj \in ObjArgs, overwrite \in BOOLEAN :
          load_event_handler(b, obj, overwrite)
    \/ \E b \in DOMAIN proto_obj, event \in StrArgs("e1"),
          trigger_fulfillment \in TriggerArgs, target_page \in {PyNone, Str("p1")},
          target_flow \in {PyNone, Str("f1")}, overwrite \in BOOLEAN :
          create_empty_event_handler(b, event, trigger_fulfillment, target_page,
                                     target_flow, overwrite)

Spec == Init /\ [][Next]_vars

\* The calls of the two-builder program: every operation of FulfillmentBuilder.
SharedParameterMaps ==
    {Dict(<<Pair(Str("a"), Str("1"))>>),
     Dict(<<Pair(Str("a"), Str("1")), Pair(Str("b"), Str("2"))>>),
     Dict(<<Pair(Str("a"), PyInt5)>>)}
SharedObjArgs == {NonMessage} \cup {i \in LiveIds : heap[i].type = "Fulfillment"}

NextShared ==
    \/ \E b \in DOMAIN proto_obj, obj \in SharedObjArgs, overwrite \in BOOLEAN :
          load_fulfillment(b, obj, overwrite)
    \/ \E b \in DOMAIN proto_obj, tag \in {Str("t")}, overwrite \in BOOLEAN :
          create_empty_fulfillment(b, PyNone, tag, PyFalse, overwrite)
    \/ \E b \in DOMAIN proto_obj, message \in {Str("hi"), PyInt5} :
          add_response_message(b, "text", message, PyNone)
    \/ \E b \in DOMAIN proto_obj, parameter_map \in SharedParameterMaps :
          add_parameter_presets(b, parameter_map)
    \/ \E b \in DOMAIN proto_obj : add_conditional_case(b)

SpecShared == InitShared /\ [][NextShared]_vars

\* ------------------------------------------------------------ construction

\* The end of __init__: the name b is bound to a new builder whose slot holds
\* r (None when the load was skipped); the builder b named before is dropped.
Construct(b, r) ==
    /\ proto_obj' = [proto_obj EXCEPT ![b] = r]
    /\ heap' = Collect(heap, proto_obj')
    /\ last' = [op |-> "__init__", b |-> b, err |-> "OK", ret |-> None]
    /\ succeeded' = [succeeded EXCEPT ![b] = (r # None)]
    /\ loaded' = [loaded EXCEPT ![b] = r]

\* FulfillmentBuilder(obj): proto_obj = None, then `if obj:` load_fulfillment(obj)
\* on the new builder, where the slot is None and overwrite is False. An error
\* of the load leaves __init__, so no builder is made and b stays bound as it was.
FulfillmentBuilder(b, obj) ==
    /\ b \in FBuilders
    /\ IF ~ArgBool(obj) THEN Construct(b, None)
       ELSE IF ~IsMessage(obj, "Fulfillment") THEN Raise("__init__", b, "TypeMismatch")
       ELSE Construct(b, obj)

TransitionRouteBuilder(b, obj) ==
    /\ b \in TBuilders
    /\ IF ~ArgBool(obj) THEN Construct(b, None)
       ELSE IF ~IsMessage(obj, "TransitionRoute") THEN Raise("__init__", b, "TypeMismatch")
       ELSE Construct(b, obj)

EventHandlerBuilder(b, obj) ==
    /\ b \in EBuilders
    /\ IF ~ArgBool(obj) THEN Construct(b, None)
       ELSE IF ~IsMessage(obj, "EventHandler") THEN Raise("__init__", b, "TypeMismatch")
       ELSE Construct(b, obj)

\* A program that also constructs builders with an argument.
NextConstruct ==
    \/ Next
    \/ \E b \in DOMAIN proto_obj, obj \in ObjArgs : FulfillmentBuilder(b, obj)
    \/ \E b \in DOMAIN proto_obj, obj \in ObjArgs : TransitionRouteBuilder(b, obj)
    \/ \E b \in DOMAIN proto_obj, obj \in ObjArgs : EventHandlerBuilder(b, obj)

SpecConstruct == Init /\ [][NextConstruct]_vars

\* ------------------------------------------------------------------ claims

AddOps == {"add_response_message", "add_parameter_presets", "add_conditional_case"}

\* The builder holds a record: its slot is populated (LOADED), else EMPTY.
Holds(b) == proto_obj[b] # None

\* This step is a call of operation op on builder b.
Called(op, b) == last'.op = op /\ last'.b = b

\* The call ended with an error and changed neither the slot nor any message.
Rejected(e) == last'.err = e /\ proto_obj' = proto_obj /\ heap' = heap

\* The step before this one was a successful create on b with valid arguments
\* (an EventHandlerBuilder's create must be given its event).
JustCreated(b) ==
    /\ last.op = "create_empty" /\ last.b = b /\ last.err = "OK"
    /\ b \in EBuilders => heap[proto_obj[b]].event # ""

OptStr(v) == v.k \in {"NoneType", "str"}
OptFulfillment(obj) == obj = None \/ IsMessage(obj, "Fulfillment")

\* Valid arguments of the three create operations.
ValidFulfillmentArgs(webhook, tag, return_partial_responses) ==
    /\ OptStr(webhook) /\ OptStr(tag) /\ return_partial_responses.k = "bool"
    /\ webhook.k = "str" => tag.k = "str"
ValidRouteArgs(intent, condition, trigger_fulfillment, target_page, target_flow) ==
    /\ OptStr(intent) /\ OptStr(condition) /\ OptStr(target_page) /\ OptStr(target_flow)
    /\ OptFulfillment(trigger_fulfillment)
    /\ ~(target_page.k = "str" /\ target_flow.k = "str")
ValidHandlerArgs(event, trigger_fulfillment, target_page, target_flow) ==
    /\ event.k = "str" /\ OptStr(target_page) /\ OptStr(target_flow)
    /\ OptFulfillment(trigger_fulfillment)
    /\ ~(target_page.k = "str" /\ target_flow.k = "str")

\* The trigger_fulfillment a created TransitionRoute carries.
RouteTrigger(obj) == IF obj = None THEN <<Fulfillment(PyNone, PyNone, PyNone)>> ELSE <<heap[obj]>>

\* The slot of b now refers to a message that did not exist before, equal to m.
NewlyBuilt(b, m) ==
    /\ last'.err = "OK"
    /\ proto_obj'[b] # None
    /\ proto_obj'[b] \notin LiveIds
    /\ heap'[proto_obj'[b]] = m

\* C1: for each builder and any valid arguments, a create that directly follows
\* a successful create fails with AlreadyLoaded and keeps the first record when
\* overwrite is false, and succeeds with a newly built record made of the second
\* call's fields alone when overwrite is true.
C1_SecondCreate ==
    [][\A b \in DOMAIN proto_obj : (JustCreated(b) /\ Called("create_empty", b)) =>
        /\ \A webhook \in StrArgs("w"), tag \in StrArgs("t"), rpr \in BoolArgs :
              ValidFulfillmentArgs(webhook, tag, rpr) =>
                 /\ create_empty_fulfillment(b, webhook, tag, rpr, FALSE)
                       => Rejected("AlreadyLoaded")
                 /\ create_empty_fulfillment(b, webhook, tag, rpr, TRUE)
                       => NewlyBuilt(b, Fulfillment(webhook, rpr, tag))
        /\ \A intent \in StrArgs("i1"), condition \in {PyNone, Str("c1")},
              tf \in TriggerArgs, page \in {PyNone, Str("p1")}, flow \in {PyNone, Str("f1")} :
              ValidRouteArgs(intent, condition, tf, page, flow) =>
                 /\ create_empty_transition_route(b, intent, condition, tf, page, flow, FALSE)
                       => Rejected("AlreadyLoaded")
                 /\ create_empty_transition_route(b, intent, condition, tf, page, flow, TRUE)
                       => NewlyBuilt(b, TransitionRoute(intent, condition, RouteTrigger(tf),
                                                        page, flow))
        /\ \A event \in StrArgs("e1"), tf \in TriggerArgs,
              page \in {PyNone, Str("p1")}, flow \in {PyNone, Str("f1")} :
              ValidHandlerArgs(event, tf, page, flow) =>
                 /\ create_empty_event_handler(b, event, tf, page, flow, FALSE)
                       => Rejected("AlreadyLoaded")
                 /\ create_empty_event_handler(b, event, tf, page, flow, TRUE)
                       => NewlyBuilt(b, EventHandler(event, TriggerField(tf), page, flow))
    ]_vars

\* The record type of builder b's class.
RecordType(b) ==
    IF b \in FBuilders THEN "Fulfillment"
    ELSE IF b \in TBuilders THEN "TransitionRoute"
    ELSE "EventHandler"

\* A call of b's load operation.
LoadCall(b, obj, overwrite) ==
    \/ load_fulfillment(b, obj, overwrite)
    \/ load_transition_route(b, obj, overwrite)
    \/ load_event_handler(b, obj, overwrite)

\* C2: load(record, overwrite) fails with TypeMismatch when the argument is not
\* a record of the builder's type, fails with AlreadyLoaded when a record is
\* held and overwrite is false, and otherwise holds and returns the argument;
\* a failed load leaves the held record unchanged.
C2_Load ==
    [][\A b \in DOMAIN proto_obj, obj \in ObjArgs, overwrite \in BOOLEAN :
        (Called("load", b) /\ LoadCall(b, obj, overwrite)) =>
            IF ~IsMessage(obj, RecordType(b)) THEN Rejected("TypeMismatch")
            ELSE IF Holds(b) /\ ~overwrite THEN Rejected("AlreadyLoaded")
            ELSE /\ last'.err = "OK"
                 /\ proto_obj'[b] = obj
                 /\ last'.ret = obj
    ]_vars

\* C3: once a create or load has succeeded on a builder, the builder holds a
\* record in every later state and no add operation on it fails with NotLoaded.
C3_StaysLoaded ==
    \A b \in DOMAIN proto_obj : succeeded[b] =>
        /\ Holds(b)
        /\ ~(last.b = b /\ last.op \in AddOps /\ last.err = "NotLoaded")

\* The six response types and, for each, the shape its message must have.
SixTypes ==
    {"text", "live_agent_handoff", "conversation_success", "output_audio_text",
     "play_audio", "telephony_transfer_call"}
ShapeMatches(response_type, message) ==
    CASE response_type = "text" ->
            \/ message.k = "str"
            \/ message.k = "list" /\ \A i \in DOMAIN message.val : message.val[i].k = "str"
      [] response_type \in {"live_agent_handoff", "conversation_success"} ->
            message.k = "dict" /\ \A i \in DOMAIN message.val : message.val[i][1].k = "str"
      [] OTHER -> message.k = "str"
ValidResponse(response_type, message, mode) ==
    /\ response_type \in SixTypes
    /\ ShapeMatches(response_type, message)
    /\ response_type = "output_audio_text" => mode \in {Str("text"), Str("ssml")}

\* The entry a valid (response_type, message, mode) stands for.
ResponseEntry(response_type, message, mode) ==
    CASE response_type = "text" ->
            [kind |-> "text",
             text |-> IF message.k = "str" THEN <<message.val>>
                      ELSE [i \in DOMAIN message.val |-> message.val[i].val]]
      [] response_type \in {"live_agent_handoff", "conversation_success"} ->
            [kind |-> response_type, metadata |-> message.val]
      [] response_type = "output_audio_text" ->
            IF mode = Str("text")
            THEN [kind |-> "output_audio_text", text |-> message.val]
            ELSE [kind |-> "output_audio_text", ssml |-> message.val]
      [] response_type = "play_audio" -> [kind |-> "play_audio", audio_uri |-> message.val]
      [] OTHER -> [kind |-> "telephony_transfer_call", phone_number |-> message.val]

\* C4: on a FulfillmentBuilder holding a record, add_response_message with a
\* valid (response_type, message, mode) succeeds, appends exactly one entry at
\* the end of the held record's messages, changes nothing else and returns the
\* held record.
C4_AppendsMessage ==
    [][\A b \in DOMAIN proto_obj, response_type \in ResponseTypes,
          message \in Messages, mode \in Modes :
        ( /\ Called("add_response_message", b)
          /\ ObjBool(proto_obj[b])
          /\ ValidResponse(response_type, message, mode)
          /\ add_response_message(b, response_type, message, mode) ) =>
            /\ last'.err = "OK"
            /\ last'.ret = proto_obj[b]
            /\ proto_obj' = proto_obj
            /\ heap' = [heap EXCEPT ![proto_obj[b]].messages =
                           Append(@, ResponseEntry(response_type, message, mode))]
    ]_vars

\* C5: on a FulfillmentBuilder that holds no record, each of the three add
\* operations fails with NotLoaded for every argument value, valid or not, and
\* the builder stays empty.
C5_AddOnEmpty ==
    [][\A b \in DOMAIN proto_obj : (b \in FBuilders /\ ~Holds(b) /\ last'.b = b) =>
        /\ \A response_type \in ResponseTypes, message \in Messages, mode \in Modes :
              add_response_message(b, response_type, message, mode)
                 => Rejected("NotLoaded")
        /\ \A parameter_map \in ParameterMaps :
              add_parameter_presets(b, parameter_map) => Rejected("NotLoaded")
        /\ add_conditional_case(b) => Rejected("NotLoaded")
    ]_vars

\* An add operation was just refused on a builder that has held nothing yet.
C5_Witness ==
    /\ last.op = "add_parameter_presets"
    /\ last.err = "NotLoaded"
    /\ last.b \in DOMAIN proto_obj
    /\ ~Holds(last.b)
    /\ ~succeeded[last.b]

\* C6: on a FulfillmentBuilder holding a record, add_response_message fails
\* with InvalidArgument, and with no other error, for every invalid input (an
\* unknown response type, a message of the wrong shape, output_audio_text with
\* no or an unknown mode), and leaves the messages unchanged.
C6_InvalidResponse ==
    [][\A b \in DOMAIN proto_obj, response_type \in ResponseTypes,
          message \in Messages, mode \in Modes :
        ( /\ Called("add_response_message", b)
          /\ ObjBool(proto_obj[b])
          /\ ~ValidResponse(response_type, message, mode)
          /\ add_response_message(b, response_type, message, mode) ) =>
            Rejected("InvalidArgument")
    ]_vars

\* parameter_map is a mapping from strings to strings.
StrToStr(parameter_map) ==
    /\ parameter_map.k = "dict"
    /\ \A i \in DOMAIN parameter_map.val :
          parameter_map.val[i][1].k = "str" /\ parameter_map.val[i][2].k = "str"

\* The (parameter, value) pairs of a string-to-string mapping, in its order.
Pairs(parameter_map) ==
    [i \in DOMAIN parameter_map.val |->
        [parameter |-> parameter_map.val[i][1].val, value |-> parameter_map.val[i][2].val]]

\* The call appended the pairs of parameter_map to the end of the presets of the
\* record at r, changed nothing else and returned the held record.
AppendedPresets(b, r, parameter_map) ==
    /\ last'.err = "OK"
    /\ last'.ret = proto_obj[b]
    /\ proto_obj' = proto_obj
    /\ heap' = [heap EXCEPT ![r].set_parameter_actions = @ \o Pairs(parameter_map)]

\* C7: on a FulfillmentBuilder holding a record, add_parameter_presets(m) with
\* m a string-to-string mapping of k entries appends exactly the k pairs of m,
\* in m's order, to the end of the held record's presets, keeps the earlier
\* presets and the messages, and returns the held record.
C7_AppendsPresets ==
    [][\A b \in DOMAIN proto_obj, parameter_map \in ParameterMaps :
        ( /\ Called("add_parameter_presets", b)
          /\ Holds(b)
          /\ StrToStr(parameter_map)
          /\ add_parameter_presets(b, parameter_map) ) =>
            AppendedPresets(b, proto_obj[b], parameter_map)
    ]_vars

\* C8: the record held after a successful load(r) is r itself: the builder's
\* slot and the value returned are r and stay r until the next create or load,
\* and a later add through the builder changes the caller's r, which every other
\* builder that loaded r sees.
C8_LoadByReference ==
    [][ /\ \A b \in DOMAIN proto_obj, r \in ObjArgs, overwrite \in BOOLEAN :
              (Called("load", b) /\ load_fulfillment(b, r, overwrite) /\ last'.err = "OK") =>
                  /\ proto_obj'[b] = r
                  /\ last'.ret = r
                  /\ heap'[r] = heap[r]
        /\ \A b \in DOMAIN proto_obj : loaded'[b] # None => proto_obj'[b] = loaded'[b]
        /\ \A b \in DOMAIN proto_obj, parameter_map \in ParameterMaps :
              ( /\ Called("add_parameter_presets", b)
                /\ loaded[b] # None
                /\ add_parameter_presets(b, parameter_map)
                /\ last'.err = "OK" ) =>
                  /\ heap'[loaded[b]].set_parameter_actions =
                        heap[loaded[b]].set_parameter_actions \o Pairs(parameter_map)
                  /\ \A c \in DOMAIN proto_obj :
                        loaded[c] = loaded[b] => heap'[proto_obj'[c]] = heap'[loaded[b]]
    ]_vars

\* Both builders loaded the same record and an add through one of them has
\* just lengthened it.
C8_Witness ==
    /\ DOMAIN proto_obj = FBuilders
    /\ loaded["fb1"] # None
    /\ loaded["fb2"] = loaded["fb1"]
    /\ proto_obj["fb1"] = proto_obj["fb2"]
    /\ last.op = "add_parameter_presets"
    /\ last.err = "OK"
    /\ last.ret = loaded["fb1"]
    /\ Len(heap[loaded["fb1"]].set_parameter_actions) > 0

\* A call of the create operation of a TransitionRouteBuilder or an
\* EventHandlerBuilder with the given targets.
RouteCreate(b, intent, condition, tf, page, flow, overwrite) ==
    create_empty_transition_route(b, intent, condition, tf, page, flow, overwrite)
HandlerCreate(b, event, tf, page, flow, overwrite) ==
    create_empty_event_handler(b, event, tf, page, flow, overwrite)

Given(v) == PyBool(v)

\* The target of a record built from the given page and flow.
OneTarget(page, flow) ==
    IF Given(page) THEN [case |-> "target_page", val |-> page.val]
    ELSE IF Given(flow) THEN [case |-> "target_flow", val |-> flow.val]
    ELSE [case |-> "none", val |-> ""]

\* C9 as stated: create fails with ConflictingFields whenever both target_page
\* and target_flow are given, whatever the other arguments, the overwrite flag
\* and the state, and leaves the held record unchanged.
C9_ConflictAlways ==
    [][\A b \in DOMAIN proto_obj, tf \in TriggerArgs, overwrite \in BOOLEAN,
          page \in {PyNone, Str("p1")}, flow \in {PyNone, Str("f1")} :
        ( /\ Called("create_empty", b)
          /\ b \in TBuilders \cup EBuilders
          /\ Given(page) /\ Given(flow) ) =>
            /\ \A intent \in StrArgs("i1"), condition \in {PyNone, Str("c1")} :
                  RouteCreate(b, intent, condition, tf, page, flow, overwrite)
                     => Rejected("ConflictingFields")
            /\ \A event \in StrArgs("e1") :
                  HandlerCreate(b, event, tf, page, flow, overwrite)
                     => Rejected("ConflictingFields")
    ]_vars

\* The outcome of a create given both targets: refused, with ConflictingFields
\* when the other arguments have their declared types.
RefusedForTargets(welltyped) ==
    /\ Rejected("ConflictingFields") \/ Rejected("TypeMismatch")
    /\ welltyped => Rejected("ConflictingFields")

\* C9 (amended): a create given both target_page and target_flow always fails
\* and leaves the held record unchanged, whatever the overwrite flag and the
\* state: with ConflictingFields when every argument has its declared type,
\* else with ConflictingFields or TypeMismatch; and a record a create produces
\* has the one target given, or none.
C9_ConflictWhenWellTyped ==
    [][\A b \in DOMAIN proto_obj :
        (Called("create_empty", b) /\ b \in TBuilders \cup EBuilders) =>
        /\ ~Rejected("ConflictingFields") =>
              \A tf \in TriggerArgs, overwrite \in BOOLEAN :
                 /\ \A intent \in StrArgs("i1"), condition \in {PyNone, Str("c1")} :
                       RouteCreate(b, intent, condition, tf, Str("p1"), Str("f1"), overwrite)
                          => RefusedForTargets(OptStr(intent) /\ OptStr(condition)
                                               /\ OptFulfillment(tf))
                 /\ \A event \in StrArgs("e1") :
                       HandlerCreate(b, event, tf, Str("p1"), Str("f1"), overwrite)
                          => RefusedForTargets(OptStr(event) /\ OptFulfillment(tf))
        /\ last'.err = "OK" =>
              \A tf \in TriggerArgs, overwrite \in BOOLEAN,
                 page \in {PyNone, Str("p1")}, flow \in {PyNone, Str("f1")} :
                 /\ \A intent \in StrArgs("i1"), condition \in {PyNone, Str("c1")} :
                       RouteCreate(b, intent, condition, tf, page, flow, overwrite)
                          => heap'[proto_obj'[b]].target = OneTarget(page, flow)
                 /\ \A event \in StrArgs("e1") :
                       HandlerCreate(b, event, tf, page, flow, overwrite)
                          => heap'[proto_obj'[b]].target = OneTarget(page, flow)
    ]_vars

\* A create given both targets was just refused with ConflictingFields on a
\* builder that holds a record.
C9_Witness ==
    /\ last.op = "create_empty"
    /\ last.err = "ConflictingFields"
    /\ last.b \in TBuilders
    /\ Holds(last.b)

\* C10: every record a TransitionRouteBuilder create produces and holds has an
\* intent or a condition.
C10_IntentOrCondition ==
    \A b \in DOMAIN proto_obj :
        (b \in TBuilders /\ last.op = "create_empty" /\ last.b = b /\ last.err = "OK") =>
            \/ heap[proto_obj[b]].intent # ""
            \/ heap[proto_obj[b]].condition # ""

\* The empty Fulfillment, and the trigger_fulfillment a create stores for a
\* supplied Fulfillment.
EmptyFulfillment == Fulfillment(PyNone, PyNone, PyNone)
Supplied(tf) == <<heap[tf]>>

\* C11: a successful create without trigger_fulfillment leaves a
\* TransitionRouteBuilder holding a record whose trigger_fulfillment is present
\* and empty, and an EventHandlerBuilder holding a record whose
\* trigger_fulfillment is unset; with a Fulfillment supplied, both hold a record
\* whose trigger_fulfillment is the supplied one.
C11_TriggerFulfillment ==
    [][\A b \in DOMAIN proto_obj :
        (Called("create_empty", b) /\ b \in TBuilders \cup EBuilders /\ last'.err = "OK") =>
           \A tf \in TriggerArgs, overwrite \in BOOLEAN,
              page \in {PyNone, Str("p1")}, flow \in {PyNone, Str("f1")} :
              OptFulfillment(tf) =>
                 /\ \A intent \in StrArgs("i1"), condition \in {PyNone, Str("c1")} :
                       RouteCreate(b, intent, condition, tf, page, flow, overwrite) =>
                          /\ NewlyBuilt(b, heap'[proto_obj'[b]])
                          /\ heap'[proto_obj'[b]].trigger_fulfillment =
                                IF tf = None THEN <<EmptyFulfillment>> ELSE Supplied(tf)
                 /\ \A event \in StrArgs("e1") :
                       HandlerCreate(b, event, tf, page, flow, overwrite) =>
                          /\ NewlyBuilt(b, heap'[proto_obj'[b]])
                          /\ heap'[proto_obj'[b]].trigger_fulfillment =
                                IF tf = None THEN <<>> ELSE Supplied(tf)
    ]_vars

\* A TransitionRouteBuilder has just created a record with an intent and, no
\* trigger_fulfillment having been given, the empty Fulfillment in its place.
C11_Witness ==
    /\ last.op = "create_empty"
    /\ last.err = "OK"
    /\ last.b \in TBuilders
    /\ last.ret = proto_obj[last.b]
    /\ heap[proto_obj[last.b]].intent = "i1"
    /\ heap[proto_obj[last.b]].trigger_fulfillment = <<EmptyFulfillment>>

\* A call of create_empty_fulfillment.
FulfillmentCreate(b, webhook, tag, rpr, overwrite) ==
    create_empty_fulfillment(b, webhook, tag, rpr, overwrite)

\* C12 as stated: create_empty_fulfillment fails with MissingField whenever a
\* webhook is given without a tag, whatever the other arguments, the overwrite
\* flag and the state, and leaves the held record unchanged.
C12_MissingFieldAlways ==
    [][\A b \in DOMAIN proto_obj :
        (Called("create_empty", b) /\ b \in FBuilders) =>
           \A webhook \in StrArgs("w"), tag \in StrArgs("t"), rpr \in BoolArgs,
              overwrite \in BOOLEAN :
              ( /\ Given(webhook) /\ ~Given(tag)
                /\ FulfillmentCreate(b, webhook, tag, rpr, overwrite) ) =>
                  Rejected("MissingField")
    ]_vars

\* The outcome of a create given a webhook and no tag: refused, with
\* MissingField when the arguments have their declared types.
RefusedForTag(welltyped) ==
    /\ Rejected("MissingField") \/ Rejected("TypeMismatch")
    /\ welltyped => Rejected("MissingField")

\* C12 (amended): create_empty_fulfillment given a webhook and no tag always
\* fails and leaves the held record unchanged, whatever the overwrite flag and
\* the state: with MissingField when every argument has its declared type, else
\* with MissingField or TypeMismatch; and a record it produces has a tag if it
\* has a webhook, and has no messages and no presets.
C12_MissingFieldWhenWellTyped ==
    [][\A b \in DOMAIN proto_obj :
        (Called("create_empty", b) /\ b \in FBuilders) =>
           \A webhook \in StrArgs("w"), tag \in StrArgs("t"), rpr \in BoolArgs,
              overwrite \in BOOLEAN :
              FulfillmentCreate(b, webhook, tag, rpr, overwrite) =>
                 /\ (Given(webhook) /\ ~Given(tag)) =>
                        RefusedForTag(OptStr(webhook) /\ rpr.k = "bool")
                 /\ last'.err = "OK" =>
                        /\ NewlyBuilt(b, heap'[proto_obj'[b]])
                        /\ heap'[proto_obj'[b]].webhook # "" => heap'[proto_obj'[b]].tag # ""
                        /\ heap'[proto_obj'[b]].webhook = IF Given(webhook) THEN webhook.val ELSE ""
                        /\ heap'[proto_obj'[b]].messages = <<>>
                        /\ heap'[proto_obj'[b]].set_parameter_actions = <<>>
    ]_vars

\* A create given a webhook and no tag was just refused with MissingField on a
\* FulfillmentBuilder that holds a record.
C12_Witness ==
    /\ last.op = "create_empty"
    /\ last.err = "MissingField"
    /\ last.b \in FBuilders
    /\ ObjBool(proto_obj[last.b])

\* parameter_map is a mapping with an entry that is not string-to-string.
HasInvalidEntry(parameter_map) == parameter_map.k = "dict" /\ ~StrToStr(parameter_map)

\* C13: a call that fails, of any operation of any builder and with any
\* arguments and overwrite flag, leaves the builder holding the record it held
\* (or none) and leaves every record's content as it was; and
\* add_parameter_presets with a mapping that has an invalid entry fails, so it
\* appends none of the mapping's entries.
C13_FailureKeepsRecord ==
    [][ /\ last'.err # "OK" => (proto_obj' = proto_obj /\ heap' = heap)
        /\ \A b \in DOMAIN proto_obj : Called("add_parameter_presets", b) =>
              \A parameter_map \in ParameterMaps :
                 (HasInvalidEntry(parameter_map) /\ add_parameter_presets(b, parameter_map))
                    => /\ last'.err \in {"InvalidArgument", "NotLoaded"}
                       /\ ObjBool(proto_obj[b]) => last'.err = "InvalidArgument"
    ]_vars

\* add_parameter_presets was just refused for an invalid entry on a builder
\* whose held record already has a preset, and the record still has just it.
C13_Witness ==
    /\ last.op = "add_parameter_presets"
    /\ last.err = "InvalidArgument"
    /\ last.b \in FBuilders
    /\ Holds(last.b)
    /\ Len(heap[proto_obj[last.b]].set_parameter_actions) = 1

\* A call of the constructor of b's class with argument obj.
ConstructCall(b, obj) ==
    \/ FulfillmentBuilder(b, obj)
    \/ TransitionRouteBuilder(b, obj)
    \/ EventHandlerBuilder(b, obj)

\* The outcome of this step is that of load(obj, overwrite=False) on a builder
\* constructed with no argument: obj itself is held, or TypeMismatch is raised.
AsLoadOnNew(b, obj) ==
    IF IsMessage(obj, RecordType(b))
    THEN last'.err = "OK" /\ proto_obj'[b] = obj /\ heap'[obj] = heap[obj]
    ELSE last'.err = "TypeMismatch"

\* C14: for each builder and every argument obj other than None, constructing
\* the builder with obj gives what load(obj, overwrite=False) gives on a builder
\* that holds nothing: the same held record, or the same error.
C14_ConstructIsLoad ==
    [][\A b \in DOMAIN proto_obj, obj \in ObjArgs \ {None} :
        /\ (Called("load", b) /\ proto_obj[b] = None /\ LoadCall(b, obj, FALSE))
              => AsLoadOnNew(b, obj)
        /\ (Called("__init__", b) /\ ConstructCall(b, obj))
              => AsLoadOnNew(b, obj)
    ]_vars
====
